---- MODULE Spec2Model ----
(***************************************************************************)
(* Model of src/src/threadpool-pthreads.c (pthreadpool, MiniOS port).      *)
(*                                                                         *)
(* The file keeps the pool data structures (struct thread_info, struct     *)
(* pthreadpool) and the five entry points pthreadpool_get_threads_count,   *)
(* pthreadpool_compute_1d, _1d_tiled, _2d and _2d_tiled.  Every compute    *)
(* entry point has only the branch for threadpool == NULL; with a non-NULL *)
(* handle the body is skipped and the function returns.                    *)
(*                                                                         *)
(* Spec      : one call of one entry point, inputs drawn in Init, one      *)
(*             action per loop test / loop body of the C code; size_t is   *)
(*             SizeBits wide and every size_t operation is taken modulo    *)
(*             2^SizeBits.                                                 *)
(* FairSpec  : Spec with weak fairness (a running thread keeps running).   *)
(* StealSpec : the owner/thief protocol on struct thread_info that the     *)
(*             field comments (lines 114-131) and spec.md 4.2/4.3 describe;*)
(*             the worker loop itself is not part of the source file.      *)
(***************************************************************************)
EXTENDS Integers, Sequences, FiniteSets, TLC

(* ------------------------------ bounds --------------------------------- *)
\* width of size_t in the model
SizeBits == 3
\* largest threads_count of a pool
MaxThreads == 3
\* largest range_j of the 2-D entry points
MaxRangeJ == 3
\* largest tile_j of pthreadpool_compute_2d_tiled
MaxTileJ == 2
\* largest dispatched range of the work-stealing protocol
MaxStealRange == 4

RECURSIVE Pow2(_)
Pow2(n) == IF n = 0 THEN 1 ELSE 2 * Pow2(n - 1)

SizeMod == Pow2(SizeBits)
SIZE_MAX == SizeMod - 1
SizeT == 0..SIZE_MAX

\* the callback log is cut off here; no terminating call of the model is
\* longer than SIZE_MAX * MaxRangeJ invocations
MaxCalls == SizeMod * (MaxRangeJ + 1)

(* ------------------------- size_t arithmetic --------------------------- *)
AddSz(a, b) == (a + b) % SizeMod
SubSz(a, b) == (a - b + SizeMod) % SizeMod
MulSz(a, b) == (a * b) % SizeMod

divide_round_up(dividend, divisor) ==
    IF dividend % divisor = 0
    THEN dividend \div divisor
    ELSE AddSz(dividend \div divisor, 1)

min(a, b) == IF a < b THEN a ELSE b

(* ------------------------------- state --------------------------------- *)
NULL == [threads_count |-> 0, null |-> TRUE]
Pool(n) == [threads_count |-> n, null |-> FALSE]

VARIABLES
    op,          \* the entry point being executed
    threadpool,  \* the pool handle argument: NULL or a pool
    range, tile, \* arguments of the 1-D entry points
    range_i, range_j, tile_i, tile_j,  \* arguments of the 2-D entry points
    i, j,        \* loop counters of the sequential loops
    pc,          \* position of the calling thread
    calls,       \* callback invocations so far, in order, as argument tuples
    result,      \* return value of pthreadpool_get_threads_count
    threads,     \* struct thread_info threads[] of the pool
    worker       \* position of each worker thread (StealSpec)

vars == <<op, threadpool, range, tile, range_i, range_j, tile_i, tile_j,
          i, j, pc, calls, result, threads, worker>>

args == <<op, threadpool, range, tile, range_i, range_j, tile_i, tile_j>>

Ops == {"get_threads_count", "compute_1d", "compute_1d_tiled",
        "compute_2d", "compute_2d_tiled"}

Init ==
    /\ op \in Ops
    /\ threadpool \in {NULL} \cup {Pool(n) : n \in 1..MaxThreads}
    /\ range \in (IF op \in {"compute_1d", "compute_1d_tiled"} THEN SizeT ELSE {0})
    /\ tile \in (IF op = "compute_1d_tiled" THEN 1..SIZE_MAX ELSE {0})
    /\ range_i \in (IF op \in {"compute_2d", "compute_2d_tiled"} THEN SizeT ELSE {0})
    /\ range_j \in (IF op \in {"compute_2d", "compute_2d_tiled"} THEN 0..MaxRangeJ ELSE {0})
    /\ tile_i \in (IF op = "compute_2d_tiled" THEN 1..SIZE_MAX ELSE {0})
    /\ tile_j \in (IF op = "compute_2d_tiled" THEN 1..MaxTileJ ELSE {0})
    /\ i = 0
    /\ j = 0
    /\ pc = "entry"
    /\ calls = << >>
    /\ result = 0
    /\ threads = << >>
    /\ worker = << >>

Invoke(a) == calls' = Append(calls, a)

(* -------------------- pthreadpool_get_threads_count -------------------- *)
GetThreadsCountZero ==
    /\ op = "get_threads_count" /\ pc = "entry"
    /\ result' = (IF threadpool = NULL THEN 0 ELSE threadpool.threads_count)
    /\ pc' = "done"
    /\ UNCHANGED <<args, i, j, calls, threads, worker>>

pthreadpool_get_threads_count ==
    /\ op = "get_threads_count" /\ pc = "entry"
    /\ result' = (IF threadpool = NULL THEN 1 ELSE threadpool.threads_count)
    /\ pc' = "done"
    /\ UNCHANGED <<args, i, j, calls, threads, worker>>

(* ------------------------ pthreadpool_compute_1d ----------------------- *)
\* if (threadpool == NULL) { i = 0; ... } else return
Compute1dEnter ==
    /\ op = "compute_1d" /\ pc = "entry"
    /\ IF threadpool = NULL
       THEN i' = 0 /\ pc' = "loop"
       ELSE i' = i /\ pc' = "done"
    /\ UNCHANGED <<args, j, calls, result, threads, worker>>

Compute1dIterInclusive ==
    /\ op = "compute_1d" /\ pc = "loop"
    /\ i <= range
    /\ Len(calls) < MaxCalls
    /\ Invoke(<<i>>)
    /\ i' = AddSz(i, 1)
    /\ pc' = (IF i = range THEN "done" ELSE "loop")
    /\ UNCHANGED <<args, j, result, threads, worker>>

Compute1dIterDescending ==
    /\ op = "compute_1d" /\ pc = "loop"
    /\ i < range
    /\ Invoke(<<SubSz(SubSz(range, 1), i)>>)
    /\ i' = AddSz(i, 1)
    /\ UNCHANGED <<args, j, pc, result, threads, worker>>

\* i < range: function(argument, i); i++
Compute1dIter ==
    /\ op = "compute_1d" /\ pc = "loop"
    /\ i < range
    /\ Invoke(<<i>>)
    /\ i' = AddSz(i, 1)
    /\ UNCHANGED <<args, j, pc, result, threads, worker>>

Compute1dExit ==
    /\ op = "compute_1d" /\ pc = "loop"
    /\ ~(i < range)
    /\ pc' = "done"
    /\ UNCHANGED <<args, i, j, calls, result, threads, worker>>

(* --------------------- pthreadpool_compute_1d_tiled -------------------- *)
\* the linear-index adapter: the (index, tile) it passes to the callback
compute_1d_tiled(context, linear_index) ==
    LET tile_index == linear_index
        index == MulSz(tile_index, context.tile)
        t == min(context.tile, SubSz(context.range, index))
    IN  <<index, t>>

Compute1dTiledEnter ==
    /\ op = "compute_1d_tiled" /\ pc = "entry"
    /\ IF threadpool = NULL
       THEN i' = 0 /\ pc' = "loop"
       ELSE i' = i /\ pc' = "done"
    /\ UNCHANGED <<args, j, calls, result, threads, worker>>

\* i < range: function(argument, i, min(range - i, tile)); i += tile
Compute1dTiledIter ==
    /\ op = "compute_1d_tiled" /\ pc = "loop"
    /\ i < range
    /\ Len(calls) < MaxCalls
    /\ Invoke(<<i, min(SubSz(range, i), tile)>>)
    /\ i' = AddSz(i, tile)
    /\ UNCHANGED <<args, j, pc, result, threads, worker>>

Compute1dTiledExit ==
    /\ op = "compute_1d_tiled" /\ pc = "loop"
    /\ ~(i < range)
    /\ pc' = "done"
    /\ UNCHANGED <<args, i, j, calls, result, threads, worker>>

(* ------------------------ pthreadpool_compute_2d ----------------------- *)
Compute2dEnter ==
    /\ op = "compute_2d" /\ pc = "entry"
    /\ IF threadpool = NULL
       THEN i' = 0 /\ pc' = "outer"
       ELSE i' = i /\ pc' = "done"
    /\ UNCHANGED <<args, j, calls, result, threads, worker>>

\* i < range_i: j = 0
Compute2dOuter ==
    /\ op = "compute_2d" /\ pc = "outer"
    /\ i < range_i
    /\ j' = 0
    /\ pc' = "inner"
    /\ UNCHANGED <<args, i, calls, result, threads, worker>>

Compute2dOuterExit ==
    /\ op = "compute_2d" /\ pc = "outer"
    /\ ~(i < range_i)
    /\ pc' = "done"
    /\ UNCHANGED <<args, i, j, calls, result, threads, worker>>

Compute2dInnerIterSwapped ==
    /\ op = "compute_2d" /\ pc = "inner"
    /\ j < range_j
    /\ Invoke(<<j, i>>)
    /\ j' = AddSz(j, 1)
    /\ UNCHANGED <<args, i, pc, result, threads, worker>>

\* j < range_j: function(argument, i, j); j++
Compute2dInnerIter ==
    /\ op = "compute_2d" /\ pc = "inner"
    /\ j < range_j
    /\ Invoke(<<i, j>>)
    /\ j' = AddSz(j, 1)
    /\ UNCHANGED <<args, i, pc, result, threads, worker>>

\* !(j < range_j): i++
Compute2dInnerExit ==
    /\ op = "compute_2d" /\ pc = "inner"
    /\ ~(j < range_j)
    /\ i' = AddSz(i, 1)
    /\ pc' = "outer"
    /\ UNCHANGED <<args, j, calls, result, threads, worker>>

(* --------------------- pthreadpool_compute_2d_tiled -------------------- *)
Compute2dTiledEnter ==
    /\ op = "compute_2d_tiled" /\ pc = "entry"
    /\ IF threadpool = NULL
       THEN i' = 0 /\ pc' = "outer"
       ELSE i' = i /\ pc' = "done"
    /\ UNCHANGED <<args, j, calls, result, threads, worker>>

Compute2dTiledOuter ==
    /\ op = "compute_2d_tiled" /\ pc = "outer"
    /\ i < range_i
    /\ j' = 0
    /\ pc' = "inner"
    /\ UNCHANGED <<args, i, calls, result, threads, worker>>

Compute2dTiledOuterExit ==
    /\ op = "compute_2d_tiled" /\ pc = "outer"
    /\ ~(i < range_i)
    /\ pc' = "done"
    /\ UNCHANGED <<args, i, j, calls, result, threads, worker>>

\* j < range_j: function(argument, i, j, min(range_i - i, tile_i),
\*                       min(range_j - j, tile_j)); j += tile_j
Compute2dTiledInnerIter ==
    /\ op = "compute_2d_tiled" /\ pc = "inner"
    /\ j < range_j
    /\ Len(calls) < MaxCalls
    /\ Invoke(<<i, j, min(SubSz(range_i, i), tile_i), min(SubSz(range_j, j), tile_j)>>)
    /\ j' = AddSz(j, tile_j)
    /\ UNCHANGED <<args, i, pc, result, threads, worker>>

\* !(j < range_j): i += tile_i
Compute2dTiledInnerExit ==
    /\ op = "compute_2d_tiled" /\ pc = "inner"
    /\ ~(j < range_j)
    /\ i' = AddSz(i, tile_i)
    /\ pc' = "outer"
    /\ UNCHANGED <<args, j, calls, result, threads, worker>>

Next ==
    \/ pthreadpool_get_threads_count
    \/ Compute1dEnter
    \/ Compute1dIter
    \/ Compute1dExit
    \/ Compute1dTiledEnter
    \/ Compute1dTiledIter
    \/ Compute1dTiledExit
    \/ Compute2dEnter
    \/ Compute2dOuter
    \/ Compute2dOuterExit
    \/ Compute2dInnerIter
    \/ Compute2dInnerExit
    \/ Compute2dTiledEnter
    \/ Compute2dTiledOuter
    \/ Compute2dTiledOuterExit
    \/ Compute2dTiledInnerIter
    \/ Compute2dTiledInnerExit

Spec == Init /\ [][Next]_vars

\* the calling thread is an OS thread that keeps running until it returns
FairSpec == Init /\ [][Next]_vars /\ WF_vars(Next)

(* ------------- work-stealing protocol on struct thread_info ------------ *)
(* The worker loop is not in the source file; the steps below follow the   *)
(* field comments of struct thread_info and spec.md 4.2 (partition) and    *)
(* 4.3 (worker loop): the owner decrements range_length before it          *)
(* increments range_start, a thief decrements range_length before it       *)
(* decrements range_end, and a claim is an atomic decrement-if-positive.   *)

\* near-equal contiguous partition of [0, n) over count workers
SliceStart(n, count, t) == t * (n \div count) + min(t, n % count)

thread_info(n, count, t) ==
    [range_start  |-> SliceStart(n, count, t),
     range_end    |-> SliceStart(n, count, t + 1),
     range_length |-> SliceStart(n, count, t + 1) - SliceStart(n, count, t),
     thread_number |-> t]

StealInit ==
    /\ op = "dispatch"
    /\ threadpool \in {Pool(n) : n \in 1..MaxThreads}
    /\ range \in 0..MaxStealRange
    /\ tile = 0 /\ range_i = 0 /\ range_j = 0 /\ tile_i = 0 /\ tile_j = 0
    /\ i = 0 /\ j = 0
    /\ pc = "wait"
    /\ calls = << >>
    /\ result = 0
    /\ threads = [t \in 0..(threadpool.threads_count - 1) |->
                    thread_info(range, threadpool.threads_count, t)]
    /\ worker = [t \in 0..(threadpool.threads_count - 1) |->
                    [pc |-> "own", victim |-> t]]

Workers == DOMAIN worker

\* owner: atomic decrement of its own range_length when it is positive
OwnClaim(t) ==
    /\ worker[t].pc = "own"
    /\ threads[t].range_length > 0
    /\ threads' = [threads EXCEPT ![t].range_length = @ - 1]
    /\ worker' = [worker EXCEPT ![t].pc = "own_claimed"]
    /\ UNCHANGED <<args, i, j, pc, calls, result>>

\* owner: takes range_start as the claimed index, increments it, runs the item
OwnExecute(t) ==
    /\ worker[t].pc = "own_claimed"
    /\ threads' = [threads EXCEPT ![t].range_start = @ + 1]
    /\ Invoke(<<threads[t].range_start>>)
    /\ worker' = [worker EXCEPT ![t].pc = "own"]
    /\ UNCHANGED <<args, i, j, pc, result>>

\* owner: own range_length is 0, start scanning the siblings from t + 1
OwnExhausted(t) ==
    /\ worker[t].pc = "own"
    /\ threads[t].range_length = 0
    /\ worker' = [worker EXCEPT ![t].pc = "steal",
                                ![t].victim = (t + 1) % threadpool.threads_count]
    /\ UNCHANGED <<args, i, j, pc, calls, result, threads>>

StealClaimEndFirst(t) ==
    /\ worker[t].pc = "steal"
    /\ worker[t].victim # t
    /\ threads[worker[t].victim].range_length > 0
    /\ threads' = [threads EXCEPT ![worker[t].victim].range_end = @ - 1]
    /\ worker' = [worker EXCEPT ![t].pc = "steal_claimed"]
    /\ UNCHANGED <<args, i, j, pc, calls, result>>

\* thief: atomic decrement of the victim's range_length when it is positive
StealClaim(t) ==
    /\ worker[t].pc = "steal"
    /\ worker[t].victim # t
    /\ threads[worker[t].victim].range_length > 0
    /\ threads' = [threads EXCEPT ![worker[t].victim].range_length = @ - 1]
    /\ worker' = [worker EXCEPT ![t].pc = "steal_claimed"]
    /\ UNCHANGED <<args, i, j, pc, calls, result>>

\* thief: decrements the victim's range_end and runs the item it now points at
StealExecute(t) ==
    /\ worker[t].pc = "steal_claimed"
    /\ threads' = [threads EXCEPT ![worker[t].victim].range_end = @ - 1]
    /\ Invoke(<<threads[worker[t].victim].range_end - 1>>)
    /\ worker' = [worker EXCEPT ![t].pc = "steal"]
    /\ UNCHANGED <<args, i, j, pc, result>>

\* thief: the victim has nothing left, move on to the next sibling
StealNext(t) ==
    /\ worker[t].pc = "steal"
    /\ worker[t].victim # t
    /\ threads[worker[t].victim].range_length = 0
    /\ worker' = [worker EXCEPT ![t].victim = (@ + 1) % threadpool.threads_count]
    /\ UNCHANGED <<args, i, j, pc, calls, result, threads>>

\* the scan came back to the worker's own slot: nothing left anywhere
WorkerIdle(t) ==
    /\ worker[t].pc = "steal"
    /\ worker[t].victim = t
    /\ worker' = [worker EXCEPT ![t].pc = "idle"]
    /\ UNCHANGED <<args, i, j, pc, calls, result, threads>>

StealNextStep ==
    \/ \E t \in Workers : OwnClaim(t)
    \/ \E t \in Workers : OwnExecute(t)
    \/ \E t \in Workers : OwnExhausted(t)
    \/ \E t \in Workers : StealClaim(t)
    \/ \E t \in Workers : StealExecute(t)
    \/ \E t \in Workers : StealNext(t)
    \/ \E t \in Workers : WorkerIdle(t)

StealSpec == StealInit /\ [][StealNextStep]_vars

(* ============================== properties ============================= *)
IsPrefix(s, t) ==
    /\ Len(s) <= Len(t)
    /\ \A k \in 1..Len(s) : s[k] = t[k]

\* ceil(a / b) and min over the mathematical integers
CeilDiv(a, b) == (a + b - 1) \div b
MathMin(a, b) == IF a <= b THEN a ELSE b

Absent == threadpool = NULL

\* 0, 1, ..., n - 1 as callback argument tuples
Ascending(n) == [k \in 1..n |-> <<k - 1>>]

\* (i, j) pairs of [0, ni) x [0, nj) in row-major order
RowMajor(ni, nj) ==
    [k \in 1..(ni * nj) |-> <<(k - 1) \div nj, (k - 1) % nj>>]

\* chunks (offset, width) of [0, n) cut every t elements
Chunks(n, t) ==
    [k \in 1..CeilDiv(n, t) |-> <<(k - 1) * t, MathMin(t, n - (k - 1) * t)>>]

\* tiles of [0, ni) x [0, nj) in row-major tile order
Tiles(ni, nj, ti, tj) ==
    [k \in 1..(CeilDiv(ni, ti) * CeilDiv(nj, tj)) |->
        LET a == ((k - 1) \div CeilDiv(nj, tj)) * ti
            b == ((k - 1) % CeilDiv(nj, tj)) * tj
        IN  <<a, b, MathMin(ni - a, ti), MathMin(nj - b, tj)>>]

\* the linear-index adapter applied to 0 .. divide_round_up(range, tile) - 1
AdapterCalls ==
    [k \in 1..divide_round_up(range, tile) |->
        compute_1d_tiled([range |-> range, tile |-> tile], k - 1)]

Occurrences(idx) == Cardinality({k \in DOMAIN calls : calls[k] = <<idx>>})

\* C1: when pthreadpool_compute_1d returns from a call with a present pool,
\* the callback has run for every index of 0 .. range-1 exactly once.
C1_PresentPoolCoversRange ==
    (op = "compute_1d" /\ ~Absent /\ pc = "done") =>
        /\ Len(calls) = range
        /\ \A idx \in 0..(range - 1) : Occurrences(idx) = 1

\* C2: with an absent pool pthreadpool_compute_1d calls the callback for
\* 0, 1, ..., range-1 in this order and makes no other call: the log is at
\* every moment a prefix of that sequence, and the whole of it on return.
C2_SequentialFallback ==
    (op = "compute_1d" /\ Absent) =>
        /\ IsPrefix(calls, Ascending(range))
        /\ (pc = "done" => calls = Ascending(range))

C2_Witness ==
    /\ op = "compute_1d" /\ Absent /\ pc = "done" /\ range = 5
    /\ calls = << <<0>>, <<1>>, <<2>>, <<3>>, <<4>> >>

\* C3: a pthreadpool_compute_1d call with range = 0 never invokes the
\* callback and always returns, with a present and with an absent pool.
C3_EmptyJob ==
    /\ []((op = "compute_1d" /\ range = 0) => calls = << >>)
    /\ ((op = "compute_1d" /\ range = 0) ~> (pc = "done" /\ calls = << >>))

C3_Witness ==
    /\ op = "compute_1d" /\ range = 0 /\ pc = "done" /\ calls = << >>
    /\ ~Absent

\* C4: pthreadpool_get_threads_count returns 1 for an absent pool and
\* threads_count otherwise, a value >= 1, and leaves the pool as it was.
C4_GetThreadsCount ==
    [][op = "get_threads_count" =>
        /\ threadpool' = threadpool
        /\ threads' = threads
        /\ (pc' = "done" =>
              /\ result' = (IF Absent THEN 1 ELSE threadpool.threads_count)
              /\ result' >= 1)]_vars

C4_Witness ==
    /\ op = "get_threads_count" /\ pc = "done"
    /\ Absent /\ result = 1

\* C5: with an absent pool pthreadpool_compute_2d calls the callback once
\* per (i, j) of [0, range_i) x [0, range_j) in row-major order, and not at
\* all when range_i = 0 or range_j = 0.
C5_RowMajorFallback ==
    (op = "compute_2d" /\ Absent) =>
        /\ IsPrefix(calls, RowMajor(range_i, range_j))
        /\ (pc = "done" => calls = RowMajor(range_i, range_j))

C5_Witness ==
    /\ op = "compute_2d" /\ Absent /\ pc = "done"
    /\ range_i = 2 /\ range_j = 3
    /\ calls = << <<0, 0>>, <<0, 1>>, <<0, 2>>, <<1, 0>>, <<1, 1>>, <<1, 2>> >>

\* C6: for every range and tile >= 1, pthreadpool_compute_1d_tiled hands
\* the callback the chunks (0, ..), (tile, ..), (2*tile, ..), ... below range
\* with width min(tile, range - offset): disjoint, contiguous, union [0, range).
C6_TiledChunks ==
    op = "compute_1d_tiled" =>
        /\ IsPrefix(calls, Chunks(range, tile))
        /\ (pc = "done" => calls = Chunks(range, tile))

\* C7: range_length <= range_end - range_start for every worker slot, in
\* every state of every interleaving of owner claims and thief steals.
C7_RangeLengthBound ==
    \A t \in DOMAIN threads :
        threads[t].range_length <= threads[t].range_end - threads[t].range_start

\* a slot whose owner and a thief have both decremented range_length and
\* neither has moved its end of the range yet
C7_Witness ==
    \E t \in DOMAIN threads : \E u \in DOMAIN worker :
        /\ u # t
        /\ worker[t].pc = "own_claimed"
        /\ worker[u].pc = "steal_claimed" /\ worker[u].victim = t
        /\ threads[t].range_length + 2 = threads[t].range_end - threads[t].range_start

\* C8: with an absent pool pthreadpool_compute_2d_tiled calls the callback
\* once per tile, in row-major tile order, with the clipped tile sizes.
C8_Tiled2dFallback ==
    (op = "compute_2d_tiled" /\ Absent) =>
        /\ IsPrefix(calls, Tiles(range_i, range_j, tile_i, tile_j))
        /\ (pc = "done" => calls = Tiles(range_i, range_j, tile_i, tile_j))

\* C9: the sequential loop of pthreadpool_compute_1d_tiled makes the same
\* calls, in the same order, as compute_1d_tiled applied to the linear
\* indices 0 .. divide_round_up(range, tile) - 1.
C9_AdapterEquivalence ==
    (op = "compute_1d_tiled" /\ Absent) =>
        /\ IsPrefix(calls, AdapterCalls)
        /\ (pc = "done" => calls = AdapterCalls)

\* C10: with an absent pool the loop of pthreadpool_compute_1d_tiled ends
\* after exactly ceil(range / tile) invocations: it never makes more, and it
\* has made that many when it returns.
C10_TiledLoopCount ==
    (op = "compute_1d_tiled" /\ Absent) =>
        /\ Len(calls) <= CeilDiv(range, tile)
        /\ (pc = "done" => Len(calls) = CeilDiv(range, tile))

====
